---- MODULE Spec2Model ----
(***************************************************************************)
(* The action orchestrator of the neural local search for pickup-and-      *)
(* delivery tours: nets/graph_layers.py, class NNSDecoder, with the        *)
(* constructor of NodePairRemovalDecoder.  One step (NNSDecoder.forward)   *)
(* selects a request pair to remove, asks the environment for the swap     *)
(* mask of that pair, selects the two reinsertion anchors and returns      *)
(* (action, log_ll, entropy).  A second specification, PosSpec, runs the   *)
(* positional state encoder EmbeddingNet._position_embedding on a tour:    *)
(* the walk that ranks the nodes and the stack simulation behind top2,     *)
(* and then the views the decoders take of that tour.  EncSpec runs a      *)
(* stack of NNSEncoder layers, ConsSpec the steps of ConstructDecoder.     *)
(*                                                                         *)
(* Numbers.  A logit table holds integers; MaskedLogit stands for the      *)
(* float -1e20 the code writes into excluded entries.  softmax is          *)
(* modelled by integer weights 2^(x - min finite x) in place of            *)
(* exp(x - max x): the order of the weights and, above all, which of them  *)
(* are zero is that of float32, where exp(-1e20 - max) underflows to 0     *)
(* as soon as one entry is finite, and where a table whose entries are     *)
(* all -1e20 becomes the uniform distribution.  A probability is a pair    *)
(* <<numerator, denominator>>, a log-probability is the pair of the        *)
(* probability it is the logarithm of, so that <<1, 1>> is the             *)
(* log-probability 0 and a sum of log-probabilities is a product.          *)
(***************************************************************************)
EXTENDS Integers, Sequences, FiniteSets, TLC

\* ------------------------------------------------------------------ bounds

\* n, the number of request pairs of an instance.
NumPairs == 2
\* The number of instances of a batch.
BatchSize == 2
\* v_range, the bound tanh(.) * v_range puts on a learned logit.
VRange == 1
\* The number of parameter/instance data sets a step is tried on.
NumData == 2
\* The largest amount the opened-at values are shifted by.
MaxShift == 2
\* n_query, the number of nodes the encoder layers are run on.
NumQuery == 2
\* The number of values a feature or an attention score takes.
FeaMod == 3
\* The largest number of encoder layers stacked.
NumLayers == 3

\* The float -1e20 of lines 575, 709 and 719: below every finite logit.
MaskedLogit == -1000

graph_size_plus1 == 2 * NumPairs + 1
half_pos == (graph_size_plus1 - 1) \div 2

Batch == 0 .. BatchSize - 1
Data == 0 .. NumData - 1
\* Pair indices: the removal tables have graph_size_plus1 // 2 columns.
PairIdx == 0 .. (graph_size_plus1 \div 2) - 1
Nodes == 0 .. graph_size_plus1 - 1
Cells == Nodes \X Nodes
FlatIdx == 0 .. graph_size_plus1 * graph_size_plus1 - 1

\* Optional values: None, or Some(x).
None == << >>
Some(x) == << x >>
IsSome(o) == Len(o) = 1
Get(o) == o[1]

\* ------------------------------------------------------- numeric helpers

RECURSIVE Pow2(_)
Pow2(k) == IF k <= 0 THEN 1 ELSE 2 * Pow2(k - 1)

RECURSIVE SumOver(_, _)
SumOver(f, S) ==
  IF S = {} THEN 0
  ELSE LET i == CHOOSE j \in S : TRUE IN f[i] + SumOver(f, S \ {i})

\* tensor.norm(p=2) of a row <<dx, dy>>; exact when dx^2 + dy^2 is a square.
Norm2(v) ==
  LET sq == v[1] * v[1] + v[2] * v[2]
  IN CHOOSE r \in 0 .. sq : r * r <= sq /\ (r + 1) * (r + 1) > sq

Minus(u, v) == << u[1] - v[1], u[2] - v[2] >>

\* The entries of table t that are not -1e20.
Finite(t) == {i \in DOMAIN t : t[i] # MaskedLogit}

MinFinite(t) ==
  CHOOSE m \in {t[i] : i \in Finite(t)} : \A i \in Finite(t) : m <= t[i]

\* exp(t[i] - max t), up to a common positive factor: 0 for a -1e20 entry
\* beside a finite one, 1 everywhere when every entry is -1e20.
ExpWeights(t) ==
  LET fin == Finite(t)
      lo == IF fin = {} THEN 0 ELSE MinFinite(t)
  IN [i \in DOMAIN t |->
        IF fin = {} THEN 1
        ELSE IF t[i] = MaskedLogit THEN 0
        ELSE Pow2(t[i] - lo)]

\* F.softmax(t, dim=-1): each entry's probability <<numerator, denominator>>.
Softmax(t) ==
  LET w == ExpWeights(t)
      total == SumOver(w, DOMAIN t)
  IN [i \in DOMAIN t |-> << w[i], total >>]

\* F.log_softmax(t, dim=-1), each entry given by the probability it is the
\* logarithm of.
LogSoftmax(t) == Softmax(t)

\* The log-probability 0, torch.tensor(0).
LogOne == << 1, 1 >>
\* a + b on log-probabilities.
LogAdd(a, b) == << a[1] * b[1], a[2] * b[2] >>
\* probs.multinomial(1): the indices that can be drawn, those of positive
\* weight (the row's sum is positive in every use below).
Multinomial(probs) == {i \in DOMAIN probs : probs[i][1] > 0}

\* probs.max(-1)[1]: the first index holding the largest probability.
ArgMaxFirst(val, S) ==
  CHOOSE i \in S :
    /\ \A j \in S : val[j] <= val[i]
    /\ \A j \in S : val[j] = val[i] => i <= j

\* torch.rand(...).multinomial(1): torch.rand draws weights in [0, 1); every
\* index whose weight is positive can be drawn, which is every index (a draw
\* of exactly 0.0 for a whole row is left out).
RandRow(S) == [i \in S |-> << 1, Cardinality(S) >>]

\* The indices in descending order of the entries.
ArgSortDescending(s) ==
  [k \in DOMAIN s |->
     CHOOSE i \in DOMAIN s :
       Cardinality({j \in DOMAIN s :
                      s[j] > s[i] \/ (s[j] = s[i] /\ j < i)}) = k]

\* solution.argsort(): position k holds the index of the k-th smallest entry.
ArgSort(s) ==
  [k \in DOMAIN s |->
     CHOOSE i \in DOMAIN s :
       Cardinality({j \in DOMAIN s :
                      s[j] < s[i] \/ (s[j] = s[i] /\ j < i)}) = k]

\* The functions f on S with f[b] in choices[b] for every b: one draw per
\* instance of the batch.
RECURSIVE PerInstance(_, _)
PerInstance(choices, S) ==
  IF S = {} THEN {<< >>}
  ELSE LET b == CHOOSE x \in S : TRUE
       IN {g @@ (b :> v) : g \in PerInstance(choices, S \ {b}),
                           v \in choices[b]}

\* ------------------------------------------------ the data a step is run on

\* The tour of instance b under data set d, as the successor array
\* `solution`: either 0 -> 1 -> 2 -> ... -> 2n -> 0, or every pickup followed
\* at once by its delivery, 0 -> 1 -> 1+n -> 2 -> 2+n -> ... -> 2n -> 0.
Solution(d, b) ==
  IF (d + b) % 2 = 0
    THEN [i \in Nodes |-> (i + 1) % graph_size_plus1]
    ELSE [i \in Nodes |->
            IF i = 0 THEN 1
            ELSE IF i <= half_pos THEN i + half_pos
            ELSE IF i = 2 * half_pos THEN 0
            ELSE i - half_pos + 1]

\* x_in: the coordinates of the nodes, here integer points of a line.
XIn(d, b) == [i \in Nodes |-> << (i * (d + b + 2) + d) % 5, 0 >>]

\* The per-node score of lines 337-341 before the depot is cut off: one
\* value per node 0 .. 2n, depending on the parameters and the instance.
Compatibility(d, b) == [v \in Nodes |-> (v + 1) * (d + b + 1)]

\* The scores with the depot's kept: entry j is the score of node j.
CompatibilityWithDepot(c) == [j \in 0 .. graph_size_plus1 - 2 |-> c[j]]

\* Lines 341-343, [:, :, 1:]: entry j is the score of node j + 1.
CompatibilitySliced(c) == [j \in 0 .. graph_size_plus1 - 2 |-> c[j + 1]]

\* Lines 404-411: the first half [: graph_size_plus1 // 2] and the second
\* half [graph_size_plus1 // 2 :] side by side, one column per pair.
CompatibilityPairing(c) ==
  [k \in PairIdx |-> << c[k], c[k + graph_size_plus1 \div 2] >>]

\* Lines 413-421 and 569-573, tanh(agg(.)) * v_range: a value in [-v_range,
\* v_range] computed from the column of one pair (selection_recent, the
\* further features of the column, is held fixed).
Agg(f) == ((f[1] * f[2]) % (2 * VRange + 1)) - VRange

\* tanh(compater_removal(...)) * v_range: the learned logit of pair k.
RemovalLogit(d, b, k) ==
  Agg(CompatibilityPairing(CompatibilitySliced(Compatibility(d, b)))[k])

\* tanh(compater_reinsertion(...)) * v_range, per cell (p, q) of the grid.
ReinsertionLogit(d, b, a, p, q) ==
  ((p * graph_size_plus1 + q + a + 2 * d + b) % (2 * VRange + 1)) - VRange

\* ----------------------------------------------------------- configuration

PolicyNames == {"NNS", "random", "greedy", "other"}
RemovalTypes == {"origin", "glitch", "update1", "update2", "other"}

VARIABLES
  pc,                \* New, Idle, Removing, Masking, Reinserting, Applied,
                     \* Failed, ConstructFailed
  TYPE_REMOVAL,      \* module constant, line 11
  TYPE_REINSERTION,  \* module constant, line 15
  type_,             \* compater_removal.type_, or "absent"
  data,              \* which parameters / tours / coordinates the step sees
  training,          \* self.training
  require_entropy,
  pre_action,        \* None or Some([Batch -> <<a, p, d>>])
  fixed_action,      \* None or Some([Batch -> <<a, p, d>>])
  action_removal_table,  \* None or Some([Batch -> [PairIdx -> logit]])
  action_removal,    \* None or Some([Batch -> PairIdx])
  selected_log_ll_action1,
  mask_table,        \* None or Some([Batch -> SUBSET Cells]): the TRUE cells
  swap_mask_calls,   \* the arguments of the get_swap_mask calls of the step
  pos_pickup,        \* None or Some([Batch -> Nodes]), line 641
  pos_delivery,      \* None or Some([Batch -> Nodes]), line 642
  pair_index,        \* None or Some([Batch -> FlatIdx])
  action,            \* None or Some([Batch -> <<a, p, d>>])
  log_ll,            \* None or Some([Batch -> <<num, den>>])
  entropy,           \* None or Some([Batch -> distribution])
  error,             \* "" or the place the step or the constructor raised
  pair_with,         \* compater_removal.pair_with: None or Some(array)
  rand_forced,       \* the caller holds torch.rand: the draws of lines 626
                     \* and 742 come out at 0.1 or above
  first_call         \* None, or Some(what the invocation being repeated
                     \* came out with)

\* EmbeddingNet._position_embedding on the tour of one instance (every
\* tensor of the method is indexed [arange, ...], row by row), followed by
\* the predecessor view NodePairRemovalDecoder.forward takes of the tour.
VARIABLES
  pos_pc,            \* off, called, loop, returned, decoded
  solution,          \* the successor array of the instance
  calc_stacks,
  step_i,            \* i of the loop of line 1072
  pre_node,          \* pre: the node the walk stands on
  visit_index,       \* [Nodes -> 0 .. seq_length], before the % of line 1092
  stacks,            \* [0 .. half_size -> hundredths]
  top2,              \* [Nodes -> <<first, second>>]
  visit_index_out,   \* None or Some(the second component returned)
  top2_out,          \* None or Some(the third component returned)
  argsort_pre,       \* None or Some(solution.argsort()), line 283
  excised_pair,      \* None or Some(the pair index the greedy path removes)
  rec_new            \* None or Some(the successor array of line 672)

posvars == << pos_pc, solution, calc_stacks, step_i, pre_node, visit_index,
              stacks, top2, visit_index_out, top2_out, argsort_pre,
              excised_pair, rec_new >>

\* A stack of NNSEncoder layers on the features of one instance.
VARIABLES
  enc_pc,            \* off, layers, done
  h_fea,             \* [EncNodes -> 0 .. FeaMod - 1]
  aux_att_score,     \* [EncNodes \X EncNodes -> 0 .. FeaMod - 1]
  aux_first,         \* the auxiliary score supplied to the first layer
  layer              \* the number of layers that have run

encvars == << enc_pc, h_fea, aux_att_score, aux_first, layer >>

\* The steps of ConstructDecoder.forward on one instance.
VARIABLES
  cons_pc,           \* off, stepping, done, failed
  stack_is_lifo,
  type_select,
  init_sol,          \* [Nodes -> Int]
  part_sol,          \* [Nodes -> Int]
  stack,             \* [0 .. half_size -> hundredths]
  step,
  direct_fixed_sol,  \* None or Some(<<0, the nodes in the order to take>>)
  sel_log_p,         \* None or Some(<<num, den>>)
  tour,              \* the nodes taken so far, in order
  took_masked        \* a step took a masked node although one was unmasked

consvars == << cons_pc, stack_is_lifo, type_select, init_sol, part_sol,
               stack, step, direct_fixed_sol, sel_log_p, tour, took_masked >>

stepvars == << pc, TYPE_REMOVAL, TYPE_REINSERTION, type_, data, training,
               require_entropy, pre_action, fixed_action, action_removal,
               action_removal_table, selected_log_ll_action1, mask_table,
               swap_mask_calls, pos_pickup, pos_delivery, pair_index, action,
               log_ll, entropy, error, pair_with, rand_forced, first_call >>

vars == << stepvars, posvars >>

config == << TYPE_REMOVAL, TYPE_REINSERTION, type_ >>
inputs == << data, training, require_entropy, pre_action, fixed_action,
             rand_forced >>
locals == << action_removal_table, action_removal, selected_log_ll_action1,
             mask_table, swap_mask_calls, pos_pickup, pos_delivery >>
outputs == << pair_index, action, log_ll, entropy >>

\* The position encoder is not running.
PosOff ==
  /\ pos_pc = "off"
  /\ solution = << >>
  /\ calc_stacks = FALSE
  /\ step_i = 0
  /\ pre_node = 0
  /\ visit_index = << >>
  /\ stacks = << >>
  /\ top2 = << >>
  /\ visit_index_out = None
  /\ top2_out = None
  /\ argsort_pre = None
  /\ excised_pair = None
  /\ rec_new = None

\* No encoder layer is running.
EncOff ==
  /\ enc_pc = "off"
  /\ h_fea = << >>
  /\ aux_att_score = << >>
  /\ aux_first = << >>
  /\ layer = 0

\* The constructive decoder is not running.
ConsOff ==
  /\ cons_pc = "off"
  /\ stack_is_lifo = FALSE
  /\ type_select = ""
  /\ init_sol = << >>
  /\ part_sol = << >>
  /\ stack = << >>
  /\ step = 0
  /\ direct_fixed_sol = None
  /\ sel_log_p = None
  /\ tour = << >>
  /\ took_masked = FALSE

\* No decoder is constructed yet and no step is running.
DecoderNew ==
  /\ pc = "New"
  /\ TYPE_REMOVAL = "NNS"
  /\ TYPE_REINSERTION = "NNS"
  /\ type_ = "absent"
  /\ data = 0
  /\ training = FALSE
  /\ require_entropy = FALSE
  /\ pre_action = None
  /\ fixed_action = None
  /\ action_removal_table = None
  /\ action_removal = None
  /\ selected_log_ll_action1 = None
  /\ mask_table = None
  /\ swap_mask_calls = << >>
  /\ pos_pickup = None
  /\ pos_delivery = None
  /\ pair_index = None
  /\ action = None
  /\ log_ll = None
  /\ entropy = None
  /\ error = ""
  /\ pair_with = None
  /\ rand_forced = FALSE
  /\ first_call = None

Init == DecoderNew /\ PosOff /\ EncOff /\ ConsOff

\* NodePairRemovalDecoder.__init__: the variants it accepts.
RemovalTypeSupported(t) == t \in {"update2", "origin", "glitch", "update1"}

\* NNSDecoder.__init__ under module constants tr, ti and argument
\* removal_type: the removal decoder is built, and its variant checked, only
\* when TYPE_REMOVAL is 'NNS'; the policy names themselves are not checked.
ConstructRaises(tr, removal_type) ==
  tr = "NNS" /\ ~RemovalTypeSupported(removal_type)

Construct ==
  /\ pc = "New"
  /\ \E tr \in PolicyNames, ti \in PolicyNames, removal_type \in RemovalTypes :
       /\ TYPE_REMOVAL' = tr
       /\ TYPE_REINSERTION' = ti
       /\ IF ConstructRaises(tr, removal_type)
            THEN /\ pc' = "ConstructFailed"
                 /\ error' = "NotImplementedError:262"
                 /\ type_' = "absent"
            ELSE /\ pc' = "Idle"
                 /\ error' = ""
                 /\ type_' = IF tr = "NNS" THEN removal_type ELSE "absent"
  \* Line 264.
  /\ pair_with' = None
  /\ UNCHANGED << inputs, locals, outputs, first_call >>
  /\ UNCHANGED << posvars, encvars, consvars >>

\* -------------------------------------------------------- the step's inputs

\* A previous action: only its column 0, the pair removed, is read.
PreRows == {<< a, 0, 0 >> : a \in PairIdx}
PreActions == {None} \cup {Some(f) : f \in [Batch -> PreRows]}

\* The rows an externally chosen action is drawn from.
FixedRows == {<< 0, 1, 2 >>, << half_pos - 1, 2 * half_pos, 1 >>}
FixedActions ==
  {None} \cup
  {Some(f) : f \in {g \in [Batch -> FixedRows] : g[0] # g[BatchSize - 1]}}

\* The caller enters NNSDecoder.forward.
StepCall ==
  /\ pc = "Idle"
  /\ pc' = "Removing"
  /\ data' \in Data
  /\ training' \in BOOLEAN
  /\ require_entropy' \in BOOLEAN
  /\ pre_action' \in PreActions
  /\ fixed_action' \in FixedActions
  \* Holding torch.rand bears on a step only where line 626 or 742 draws.
  /\ rand_forced' \in IF fixed_action' = None
                          /\ "greedy" \in {TYPE_REMOVAL, TYPE_REINSERTION}
                        THEN BOOLEAN ELSE {FALSE}
  /\ UNCHANGED << config, locals, outputs, error, pair_with, first_call >>
  /\ UNCHANGED << posvars, encvars, consvars >>

\* ------------------------------------------------------------ action1 removal

\* Line 574: the previous pair is excluded only when a previous action is
\* given and the pair index of the batch's first instance is positive.
TabuApplies(pre) == IsSome(pre) /\ Get(pre)[0][1] > 0

\* The table with pair 0 excluded when no previous action is given.
RemovalTableTabuByDefault(d, b, pre) ==
  [k \in PairIdx |->
     IF (pre = None /\ k = 0) \/ (TabuApplies(pre) /\ k = Get(pre)[b][1])
       THEN MaskedLogit
       ELSE RemovalLogit(d, b, k)]

\* Lines 568-575: action_removal_table of instance b.
RemovalTable(d, b, pre) ==
  [k \in PairIdx |->
     IF TabuApplies(pre) /\ k = Get(pre)[b][1]
       THEN MaskedLogit
       ELSE RemovalLogit(d, b, k)]

\* Lines 586-612: the greedy removal score of every pair of instance b.
GreedyRemovalScore(d, b) ==
  LET x == XIn(d, b)
      sol == Solution(d, b)
      pre == ArgSort(sol)
      cost == [i \in Nodes |->
                 Norm2(Minus(x[pre[i]], x[i])) + Norm2(Minus(x[i], x[sol[i]]))
                 - Norm2(Minus(x[pre[i]], x[sol[i]]))]
      \* cost_ is cost[:, 1:]; its halves are added pair by pair.
      cost_ == [j \in 0 .. graph_size_plus1 - 2 |-> cost[j + 1]]
  IN [k \in PairIdx |-> cost_[k] + cost_[k + graph_size_plus1 \div 2]]

\* Lines 567-617: whether the removal branch exists for the policy name.
RemovalPolicyKnown(tr) == tr \in {"NNS", "random", "greedy"}

\* A max that gives any of the indices holding the largest value.
GreedyPickAnyMax(val, S) == {i \in S : \A j \in S : val[j] <= val[i]}

\* Lines 624 and 740, probs.max(-1)[1]: what the greedy selection can come
\* out with, the first index holding the largest value.
GreedyPick(val, S) == {ArgMaxFirst(val, S)}

\* Lines 619-633: the pairs instance b can come out with, no fixed action;
\* the random alternative is taken when the draw of line 626 is below 0.1,
\* which it cannot be when torch.rand is held.
RemovalChoices(tr, d, b, pre, forced) ==
  IF tr = "greedy"
    THEN GreedyPick(GreedyRemovalScore(d, b), PairIdx)
         \cup (IF forced THEN {} ELSE Multinomial(RandRow(PairIdx)))
  ELSE IF tr = "NNS"
    THEN Multinomial(Softmax(RemovalTable(d, b, pre)))
  ELSE Multinomial(RandRow(PairIdx))

\* Lines 315-317: the node each node is paired with.
PairWith ==
  [v \in Nodes |->
     IF v = 0 THEN 0
     ELSE IF v <= graph_size_plus1 \div 2 THEN v + graph_size_plus1 \div 2
     ELSE v - graph_size_plus1 \div 2]

\* Lines 308-317: self.pair_with after compater_removal.forward has run on
\* a removal decoder of variant t holding pw.
PairWithAfter(t, pw) ==
  IF t = "update1" /\ pw = None THEN Some(PairWith) ELSE pw

\* The removal term read whenever the module is training, whatever the
\* removal policy.
SelectedLogLL1AnyPolicy(tr, train, d, b, pre, a) ==
  IF train THEN LogSoftmax(RemovalTable(d, b, pre))[a] ELSE LogOne

\* Lines 634-638: the removal term of the log-likelihood for pair a.
SelectedLogLL1(tr, train, d, b, pre, a) ==
  IF train /\ tr = "NNS"
    THEN LogSoftmax(RemovalTable(d, b, pre))[a]
    ELSE LogOne

Removal ==
  /\ pc = "Removing"
  /\ IF ~RemovalPolicyKnown(TYPE_REMOVAL)
       THEN /\ pc' = "Failed"
            /\ error' = "AssertionError:617"
            /\ UNCHANGED << locals, pair_with >>
       ELSE /\ pc' = "Masking"
            /\ error' = ""
            \* Line 570: the removal decoder runs under the trained policy.
            /\ pair_with' = IF TYPE_REMOVAL = "NNS"
                              THEN PairWithAfter(type_, pair_with)
                              ELSE pair_with
            \* Lines 568-575.
            /\ action_removal_table' =
                 IF TYPE_REMOVAL = "NNS"
                   THEN Some([b \in Batch |->
                                RemovalTable(data, b, pre_action)])
                   ELSE None
            /\ \E sel \in PerInstance(
                     [b \in Batch |->
                        IF IsSome(fixed_action)
                          THEN {Get(fixed_action)[b][1]}
                          ELSE RemovalChoices(TYPE_REMOVAL, data, b,
                                              pre_action, rand_forced)],
                     Batch) :
                 /\ action_removal' = Some(sel)
                 /\ selected_log_ll_action1' =
                      Some([b \in Batch |->
                              SelectedLogLL1(TYPE_REMOVAL, training, data, b,
                                             pre_action, sel[b])])
            /\ UNCHANGED << mask_table, swap_mask_calls, pos_pickup,
                            pos_delivery >>
  /\ UNCHANGED << config, inputs, outputs, first_call >>
  /\ UNCHANGED << posvars, encvars, consvars >>

\* ------------------------------------------------------ the swap mask

\* The cells get_swap_mask can leave feasible here: any subset of Probe.
Probe == {<< 1, 2 >>, << 2 * half_pos, 1 >>}
MaskRows == {Cells \ F : F \in SUBSET Probe}
\* The masks of a batch: every instance keeps a feasible cell, or one
\* instance has every cell infeasible and the others keep the cell (1, 2).
MaskTables ==
  {m \in [Batch -> MaskRows] :
     \/ \A b \in Batch : m[b] # Cells
     \/ \E b \in Batch :
          /\ m[b] = Cells
          /\ \A c \in Batch \ {b} : m[c] = Cells \ {<< 1, 2 >>}}

\* Lines 641 and 661: pos_pickup, the node id of the pickup of pair a.
PosPickup(a) == 1 + a

\* Lines 642 and 662: pos_delivery = pos_pickup + half_pos.
PosDelivery(a) == PosPickup(a) + half_pos

\* The pair index passed on as it is.
RemovedPairArgumentZeroBased(a) == a

\* Line 644: the first argument of get_swap_mask, action_removal + 1.
RemovedPairArgument(a) == a + 1

\* Lines 641-647: problem.get_swap_mask(action_removal + 1, visit_index,
\* top2), the environment's answer being any mask of the family; asked
\* again with the arguments of the invocation being repeated, it answers
\* as it did.
GetSwapMask ==
  /\ pc = "Masking"
  /\ pc' = "Reinserting"
  /\ pos_pickup' = Some([b \in Batch |-> PosPickup(Get(action_removal)[b])])
  /\ pos_delivery' =
       Some([b \in Batch |-> PosDelivery(Get(action_removal)[b])])
  /\ swap_mask_calls' =
       Append(swap_mask_calls,
              [b \in Batch |-> RemovedPairArgument(Get(action_removal)[b])])
  /\ IF IsSome(first_call) /\ Get(first_call).removal = Get(action_removal)
       THEN mask_table' = Some(Get(first_call).mask)
       ELSE mask_table' \in {Some(m) : m \in MaskTables}
  /\ UNCHANGED << config, inputs, action_removal_table, action_removal,
                  selected_log_ll_action1, outputs, error, pair_with,
                  first_call >>
  /\ UNCHANGED << posvars, encvars, consvars >>

\* ------------------------------------------------------- action2 reinsertion

\* The pickup cut out and the delivery left in the tour.
ExcisePickupOnly(sol, pick, deli) ==
  LET pre_pairfirst == ArgSort(sol)[pick]
      post_pairfirst == sol[pick]
      rec1 == [sol EXCEPT ![pre_pairfirst] = post_pairfirst]
  IN [rec1 EXCEPT ![pick] = pick]

\* Lines 663-672: the successor array with the pair (pick, deli) excised.
Excise(sol, pick, deli) ==
  LET pre_pairfirst == ArgSort(sol)[pick]
      post_pairfirst == sol[pick]
      rec1 == [sol EXCEPT ![pre_pairfirst] = post_pairfirst]
      rec2 == [rec1 EXCEPT ![pick] = pick]
      pre_pairsecond == ArgSort(rec2)[deli]
      post_pairsecond == rec2[deli]
  IN [rec2 EXCEPT ![pre_pairsecond] = post_pairsecond]

\* Lines 674-705: the greedy reinsertion table of instance b, pair a removed.
GreedyReinsertionTable(d, b, a) ==
  LET x == XIn(d, b)
      pick == PosPickup(a)
      deli == PosDelivery(a)
      rec == Excise(Solution(d, b), pick, deli)
      cost_insert(node) ==
        [i \in Nodes |->
           Norm2(Minus(x[node], x[i])) + Norm2(Minus(x[node], x[rec[i]]))
           - Norm2(Minus(x[i], x[rec[i]]))]
      cost_insert_p == cost_insert(pick)
      cost_insert_d == cost_insert(deli)
  IN [c \in Cells |-> -(cost_insert_p[c[1]] + cost_insert_d[c[2]])]

\* Lines 648-717: which branch builds action_reinsertion_table.  The third
\* test reads TYPE_REMOVAL.
ReinsertionBranch(tr, ti) ==
  IF ti = "NNS" THEN "NNS"
  ELSE IF ti = "random" THEN "random"
  ELSE IF tr = "greedy" THEN "greedy"
  ELSE "assert"

\* Lines 648-705: action_reinsertion_table before the mask is applied.
ReinsertionTableRaw(tr, ti, d, b, a) ==
  IF ReinsertionBranch(tr, ti) = "NNS"
    THEN [c \in Cells |-> ReinsertionLogit(d, b, a, c[1], c[2])]
  ELSE IF ReinsertionBranch(tr, ti) = "random"
    THEN [c \in Cells |-> 1]
  ELSE GreedyReinsertionTable(d, b, a)

\* The mask applied with rows and columns exchanged.
ApplyMaskTransposed(table, mask) ==
  [c \in Cells |->
     IF << c[2], c[1] >> \in mask THEN MaskedLogit ELSE table[c]]

\* table[mask] = -1e20, lines 709 and 719.
ApplyMask(table, mask) ==
  [c \in Cells |-> IF c \in mask THEN MaskedLogit ELSE table[c]]

\* The grid flattened column by column.
FlattenColumnMajor(table) ==
  [i \in FlatIdx |->
     table[<< i % graph_size_plus1, i \div graph_size_plus1 >>]]

\* table.view(batch_size, -1): row-major flattening of the grid.
Flatten(table) ==
  [i \in FlatIdx |->
     table[<< i \div graph_size_plus1, i % graph_size_plus1 >>]]

\* Lines 719-723: the masked, flattened table of instance b.
ReinsertionTable(tr, ti, d, b, a, mask) ==
  Flatten(ApplyMask(ReinsertionTableRaw(tr, ti, d, b, a), mask))

\* Line 729.
ProbsReinsertion(tr, ti, d, b, a, mask) ==
  Softmax(ReinsertionTable(tr, ti, d, b, a, mask))

\* Lines 706-715: the uniform alternative of the greedy branch.
ProbsReinsertionRandom(mask) ==
  Softmax(Flatten(ApplyMask([c \in Cells |-> 1], mask)))

\* Lines 738-750: whether a selection branch exists for the policy name.
ReinsertionPolicyKnown(ti) == ti \in {"greedy", "NNS", "random"}

\* Lines 738-748: the flat indices instance b can come out with; the
\* random alternative is taken when the draw of line 742 is below 0.1.
ReinsertionChoices(tr, ti, d, b, a, mask, forced) ==
  LET probs == ProbsReinsertion(tr, ti, d, b, a, mask)
  IN IF ti = "greedy"
       THEN GreedyPick([i \in FlatIdx |-> probs[i][1]], FlatIdx)
            \cup (IF forced THEN {}
                  ELSE Multinomial(ProbsReinsertionRandom(mask)))
       ELSE Multinomial(probs)

\* The flat index with the two anchors exchanged.
PairIndexSwapped(row) == row[3] * graph_size_plus1 + row[2]

\* Line 734: the flat index of a fixed action's anchors.
PairIndexOf(row) == row[2] * graph_size_plus1 + row[3]

\* The flat index decoded with the column first.
ActionOfSwapped(a, idx) ==
  << a, idx % graph_size_plus1, idx \div graph_size_plus1 >>

\* Lines 752-756: the action of instance b from its flat index.
ActionOf(a, idx) ==
  << a, idx \div graph_size_plus1, idx % graph_size_plus1 >>

\* Lines 758-762: the reinsertion term of the log-likelihood.
SelectedLogLL2(tr, ti, train, d, b, a, mask, idx) ==
  IF train /\ ti = "NNS"
    THEN LogSoftmax(ReinsertionTable(tr, ti, d, b, a, mask))[idx]
    ELSE LogOne

\* Line 764.
LogLL(ll1, ll2) == LogAdd(ll1, ll2)

\* Categorical(probs).entropy(), -sum p log p, given by what determines it:
\* how many entries hold each probability.
EntropyOf(probs) ==
  [w \in {probs[i] : i \in DOMAIN probs} |->
     Cardinality({i \in DOMAIN probs : probs[i] = w})]

\* 1 / torch.finfo(torch.float32).eps, eps being 2^-23.
EpsInverse == 8388608

\* torch.distributions.utils.clamp_probs, applied by Categorical when it
\* takes the logarithm of probs: the probability clamped to [eps, 1 - eps].
ClampProbs(p) ==
  LET below == p[1] <= (p[2] - 1) \div EpsInverse
      above == p[2] - p[1] <= (p[2] - 1) \div EpsInverse
  IN IF below THEN << 1, EpsInverse >>
     ELSE IF above THEN << EpsInverse - 1, EpsInverse >>
     ELSE p

\* Categorical.entropy(), line 768: -sum(probs * log(clamp_probs(probs))) is
\* 0 exactly when every term is, a term being 0 when its probability is 0
\* or the logarithm of its clamped probability is.
EntropyIsZero(e) ==
  \A w \in DOMAIN e : w[1] = 0 \/ ClampProbs(w)[1] = ClampProbs(w)[2]

\* The entropy returned whenever it is asked for, training or not.
EntropyOutWhenAsked(tr, ti, train, need, d, sel, mask) ==
  IF need
    THEN Some([b \in Batch |->
                 EntropyOf(ProbsReinsertion(tr, ti, d, b, sel[b], mask[b]))])
    ELSE None

\* Lines 766-770.
EntropyOut(tr, ti, train, need, d, sel, mask) ==
  IF need /\ train
    THEN Some([b \in Batch |->
                 EntropyOf(ProbsReinsertion(tr, ti, d, b, sel[b], mask[b]))])
    ELSE None

Reinsertion ==
  /\ pc = "Reinserting"
  /\ LET tr == TYPE_REMOVAL
         ti == TYPE_REINSERTION
         sel == Get(action_removal)
         mask == Get(mask_table)
         Finish(idx, act) ==
           /\ pc' = "Applied"
           /\ error' = ""
           /\ pair_index' = Some(idx)
           /\ action' = Some(act)
           /\ log_ll' =
                Some([b \in Batch |->
                        LogLL(Get(selected_log_ll_action1)[b],
                              SelectedLogLL2(tr, ti, training, data, b,
                                             sel[b], mask[b], idx[b]))])
           /\ entropy' = EntropyOut(tr, ti, training, require_entropy, data,
                                    sel, mask)
     IN IF ReinsertionBranch(tr, ti) = "assert"
          THEN /\ pc' = "Failed"
               /\ error' = "AssertionError:717"
               /\ UNCHANGED outputs
        ELSE IF IsSome(fixed_action)
          THEN Finish([b \in Batch |-> PairIndexOf(Get(fixed_action)[b])],
                      Get(fixed_action))
        ELSE IF ~ReinsertionPolicyKnown(ti)
          THEN /\ pc' = "Failed"
               /\ error' = "AssertionError:750"
               /\ UNCHANGED outputs
        ELSE \E idx \in PerInstance(
                   [b \in Batch |->
                      ReinsertionChoices(tr, ti, data, b, sel[b], mask[b],
                                         rand_forced)],
                   Batch) :
               Finish(idx, [b \in Batch |-> ActionOf(sel[b], idx[b])])
  /\ UNCHANGED << config, inputs, locals, pair_with, first_call >>
  /\ UNCHANGED << posvars, encvars, consvars >>

\* forward returns (action, log_ll, entropy); the caller takes them and the
\* step's locals are gone.
Return ==
  /\ pc = "Applied"
  /\ pc' = "Idle"
  /\ data' = 0
  /\ training' = FALSE
  /\ require_entropy' = FALSE
  /\ pre_action' = None
  /\ fixed_action' = None
  /\ action_removal_table' = None
  /\ action_removal' = None
  /\ selected_log_ll_action1' = None
  /\ mask_table' = None
  /\ swap_mask_calls' = << >>
  /\ pos_pickup' = None
  /\ pos_delivery' = None
  /\ pair_index' = None
  /\ action' = None
  /\ log_ll' = None
  /\ entropy' = None
  /\ rand_forced' = FALSE
  /\ first_call' = None
  /\ UNCHANGED << config, error, pair_with >>
  /\ UNCHANGED << posvars, encvars, consvars >>

\* The caller, holding torch.rand, invokes the step again on the tour,
\* coordinates and previous action of the step that returned, keeping what
\* that step came out with.
Reinvoke ==
  /\ pc = "Applied"
  /\ first_call = None
  /\ rand_forced
  /\ pc' = "Removing"
  /\ first_call' = Some([removal |-> Get(action_removal),
                         mask |-> Get(mask_table),
                         action |-> Get(action)])
  /\ action_removal_table' = None
  /\ action_removal' = None
  /\ selected_log_ll_action1' = None
  /\ mask_table' = None
  /\ swap_mask_calls' = << >>
  /\ pos_pickup' = None
  /\ pos_delivery' = None
  /\ pair_index' = None
  /\ action' = None
  /\ log_ll' = None
  /\ entropy' = None
  /\ UNCHANGED << config, inputs, error, pair_with >>
  /\ UNCHANGED << posvars, encvars, consvars >>

Next ==
  \/ Construct
  \/ StepCall
  \/ Removal
  \/ GetSwapMask
  \/ Reinsertion
  \/ Return
  \/ Reinvoke

Spec == Init /\ [][Next]_vars

\* ------------------------------------------- the positional state encoder

\* solution.size(1) and seq_length // 2 of lines 1049-1050.
seq_length == graph_size_plus1
half_size == seq_length \div 2

\* Stack values are kept in hundredths: -0.01 is -1, the visit rank r is
\* 100 * r.
Sentinel == -1
Hundredths(r) == 100 * r

\* The tours the encoder is called on: every permutation of the nodes (one
\* cycle or several), and arrays that are no permutation: a permutation
\* whose depot entry skips a node, and the constant arrays.
TourPermutations ==
  {s \in [Nodes -> Nodes] : \A v \in Nodes : \E u \in Nodes : s[u] = v}
TourInputs ==
  TourPermutations
    \cup {[p EXCEPT ![0] = p[p[0]]] : p \in TourPermutations}
    \cup {[v \in Nodes |-> c] : c \in Nodes}

PosInit ==
  /\ DecoderNew
  /\ pos_pc = "called"
  /\ solution \in TourInputs
  /\ calc_stacks \in BOOLEAN
  /\ step_i = 0
  /\ pre_node = 0
  /\ visit_index = << >>
  /\ stacks = << >>
  /\ top2 = << >>
  /\ visit_index_out = None
  /\ top2_out = None
  /\ argsort_pre = None
  /\ excised_pair = None
  /\ rec_new = None
  /\ EncOff
  /\ ConsOff

\* Lines 1060-1070: the buffers before the loop.
PositionEmbeddingCall ==
  /\ pos_pc = "called"
  /\ pos_pc' = "loop"
  /\ visit_index' = [v \in Nodes |-> 0]
  /\ pre_node' = 0
  /\ step_i' = 0
  /\ stacks' = IF calc_stacks
                 THEN [[k \in 0 .. half_size |-> Sentinel] EXCEPT ![0] = 0]
                 ELSE << >>
  /\ top2' = IF calc_stacks THEN [v \in Nodes |-> << 0, 0 >>] ELSE << >>
  /\ UNCHANGED << solution, calc_stacks, visit_index_out, top2_out,
                  argsort_pre, excised_pair, rec_new, stepvars, encvars,
                  consvars >>

\* The successor of the depot at every iteration.
CurrentNodeFromDepot(sol, pre, k) == sol[0]

\* Line 1073: current_nodes = solution[arange, pre].
CurrentNode(sol, pre, k) == sol[pre]

\* The stamp without the + 1: the first node visited is stamped 0.
OpenedAtZeroBased(k) == Hundredths(k)

\* Line 1081: the value i + 1 a pickup's slot takes when it is visited.
OpenedAt(k) == Hundredths(k + 1)

\* The slot of the delivery's own id, one too low.
DeliverySlotOffByOne(node) == node - half_size - 1

\* Line 1084: the slot a delivery closes.
DeliverySlot(node) == node - half_size

\* Lines 1078-1085: the stack after node cur is visited at iteration k.
StackStep(st, cur, k) ==
  LET index1 == cur <= half_size /\ cur > 0
      index2 == cur > half_size /\ cur > 0
  IN IF index1 THEN [st EXCEPT ![cur] = OpenedAt(k)]
     ELSE IF index2 THEN [st EXCEPT ![DeliverySlot(cur)] = Sentinel]
     ELSE st

\* The two smallest values, smallest first.
TopK2Smallest(st) ==
  {<< a, b >> \in (DOMAIN st) \X (DOMAIN st) :
     /\ a # b
     /\ st[a] <= st[b]
     /\ \A c \in DOMAIN st \ {a, b} : st[c] >= st[b]}

\* Line 1086: stacks.topk(2)[1], the slots of the two largest values,
\* largest first; topk is not stable, equal values come in either order.
TopK2(st) ==
  {<< a, b >> \in (DOMAIN st) \X (DOMAIN st) :
     /\ a # b
     /\ st[a] >= st[b]
     /\ \A c \in DOMAIN st \ {a, b} : st[c] <= st[b]}

\* Lines 1072-1086: one iteration of the loop.
PositionStep ==
  /\ pos_pc = "loop"
  /\ step_i < seq_length
  /\ LET current_nodes == CurrentNode(solution, pre_node, step_i)
     IN /\ visit_index' = [visit_index EXCEPT ![current_nodes] = step_i + 1]
        /\ pre_node' = current_nodes
        /\ IF calc_stacks
             THEN /\ stacks' = StackStep(stacks, current_nodes, step_i)
                  /\ \E t \in TopK2(stacks') :
                       top2' = [top2 EXCEPT ![current_nodes] = t]
             ELSE UNCHANGED << stacks, top2 >>
  /\ step_i' = step_i + 1
  /\ UNCHANGED << pos_pc, solution, calc_stacks, visit_index_out, top2_out,
                  argsort_pre, excised_pair, rec_new, stepvars, encvars,
                  consvars >>

\* Lines 1091-1102: the index of the pattern table, which is also the
\* visit-index returned.
ReturnedVisitIndex(vi) == [v \in DOMAIN vi |-> vi[v] % seq_length]

PositionReturn ==
  /\ pos_pc = "loop"
  /\ step_i = seq_length
  /\ pos_pc' = "returned"
  /\ visit_index_out' = Some(ReturnedVisitIndex(visit_index))
  /\ top2_out' = IF calc_stacks THEN Some(top2) ELSE None
  /\ UNCHANGED << solution, calc_stacks, step_i, pre_node, visit_index,
                  stacks, top2, argsort_pre, excised_pair, rec_new, stepvars,
                  encvars, consvars >>

\* Lines 283-284 of NodePairRemovalDecoder.forward: pre = solution.argsort().
RemovalDecoderArgsort ==
  /\ pos_pc = "returned"
  /\ pos_pc' = "decoded"
  /\ argsort_pre' = Some(ArgSort(solution))
  /\ UNCHANGED << solution, calc_stacks, step_i, pre_node, visit_index,
                  stacks, top2, visit_index_out, top2_out, excised_pair,
                  rec_new, stepvars, encvars, consvars >>

\* Lines 661-672 of NNSDecoder.forward, the greedy reinsertion path, on the
\* tour of the instance: the pair a is cut out of a clone of the tour, the
\* tour itself is not written to.
GreedyExcision ==
  /\ pos_pc = "decoded"
  /\ pos_pc' = "excised"
  /\ \E a \in PairIdx :
       /\ excised_pair' = Some(a)
       /\ rec_new' = Some(Excise(solution, PosPickup(a), PosDelivery(a)))
  /\ UNCHANGED << solution, calc_stacks, step_i, pre_node, visit_index,
                  stacks, top2, visit_index_out, top2_out, argsort_pre,
                  stepvars, encvars, consvars >>

PosNext ==
  \/ PositionEmbeddingCall
  \/ PositionStep
  \/ PositionReturn
  \/ RemovalDecoderArgsort
  \/ GreedyExcision

PosSpec == PosInit /\ [][PosNext]_vars

\* ------------------------------------------------ the encoder's layer stack

Query == 0 .. NumQuery - 1
Fea == 0 .. FeaMod - 1

\* Normalization.forward, line 873: the features brought back into range.
Norm(x) == [i \in Query |-> x[i] % FeaMod]

\* Lines 819-833: the content scores Q K^T, concatenated with the auxiliary
\* scores along the head dimension and fused by score_aggr; torch.cat
\* builds a new tensor, the auxiliary tensor is read only.
FusedScore(h, aux) ==
  [c \in Query \X Query |-> (h[c[1]] * h[c[2]] + aux[c]) % FeaMod]

\* Lines 834-845: the values weighted by the fused scores and projected.
HWave(h, aux) ==
  LET attn == FusedScore(h, aux)
  IN [i \in Query |->
        SumOver([j \in Query |-> attn[<< i, j >>] * h[j]], Query) % FeaMod]

\* The layer handing on the fused scores as the auxiliary score.
SynAttReturnsFused(h, aux) == << HWave(h, aux), FusedScore(h, aux) >>

\* Syn_Att.forward, lines 807-847: returns (h_wave, aux_att_score).
SynAtt(h, aux) == << HWave(h, aux), aux >>

\* SynAttNormSubLayer.forward, lines 896-903.
SynAttNormSubLayer(h, aux) ==
  LET r == SynAtt(h, aux)
  IN << Norm([i \in Query |-> r[1][i] + h[i]]), r[2] >>

\* FFNormSubLayer.forward, lines 926-931.
FFNormSubLayer(x) ==
  LET out == [i \in Query |-> x[i] + 1]
  IN Norm([i \in Query |-> out[i] + x[i]])

\* NNSEncoder.forward, lines 948-952.
NNSEncoderForward(h, aux) ==
  LET r == SynAttNormSubLayer(h, aux)
  IN << FFNormSubLayer(r[1]), r[2] >>

\* The auxiliary scores the first layer is given.
AuxScores ==
  {[c \in Query \X Query |-> (a * c[1] + b * c[2] + a * b) % FeaMod] :
     a \in Fea, b \in Fea}

EncInit ==
  /\ DecoderNew
  /\ PosOff
  /\ ConsOff
  /\ enc_pc = "layers"
  /\ h_fea \in [Query -> Fea]
  /\ aux_att_score \in AuxScores
  /\ aux_first = aux_att_score
  /\ layer = 0

\* One layer of the stack: what it returns is what the next layer is given.
EncoderLayer ==
  /\ enc_pc = "layers"
  /\ layer < NumLayers
  /\ LET r == NNSEncoderForward(h_fea, aux_att_score)
     IN /\ h_fea' = r[1]
        /\ aux_att_score' = r[2]
  /\ layer' = layer + 1
  /\ UNCHANGED << enc_pc, aux_first, stepvars, posvars, consvars >>

\* The stack ends after any number of layers, one at least.
EncoderDone ==
  /\ enc_pc = "layers"
  /\ layer >= 1
  /\ enc_pc' = "done"
  /\ UNCHANGED << h_fea, aux_att_score, aux_first, layer, stepvars, posvars,
                  consvars >>

EncNext ==
  \/ EncoderLayer
  \/ EncoderDone

EncSpec == EncInit /\ [][EncNext]_vars

\* ------------------------------------------------ the constructive decoder

\* self.C of line 1179.
C == 10

\* Lines 1211-1214: uc, tanh(.) * C over the temperature, per node; which
\* value depends on the step and the parameters.
Uc(k, v) == ((v * (k + 2) + k) % (2 * C + 1)) - C

\* The buffers the caller starts from: init_sol holds, for every node, a
\* value that is neither 0 nor a node that can follow it; part_sol is
\* init_sol with the depot entry 0; the depot slot of the stack is 0, the
\* slot of an unopened pickup is below it.
InitSols ==
  { [j \in Nodes |-> -1],
    [j \in Nodes |-> IF j = 0 THEN -1 ELSE j],
    [j \in Nodes |-> graph_size_plus1] }
InitStacks ==
  {[[k \in 0 .. half_size |-> u] EXCEPT ![0] = 0] :
     u \in {Sentinel, Hundredths(-1)}}

\* direct_fixed_sol: none, a tour that takes every pickup and at once its
\* delivery, or the tour that takes the nodes 2n, 2n-1, ..., 1.
DirectFixedSols ==
  { None,
    Some([i \in Nodes |->
            IF i = 0 THEN 0
            ELSE IF i % 2 = 1 THEN (i + 1) \div 2
            ELSE i \div 2 + half_size]),
    Some([i \in Nodes |-> IF i = 0 THEN 0 ELSE graph_size_plus1 - i]) }

ConsInit ==
  /\ DecoderNew
  /\ PosOff
  /\ EncOff
  /\ cons_pc = "stepping"
  /\ stack_is_lifo \in BOOLEAN
  /\ type_select \in {"greedy", "sample", "other"}
  /\ init_sol \in InitSols
  /\ part_sol = [init_sol EXCEPT ![0] = 0]
  /\ stack \in InitStacks
  /\ step = 0
  /\ direct_fixed_sol \in DirectFixedSols
  /\ sel_log_p = None
  /\ tour = << >>
  /\ took_masked = FALSE

\* The slot holding the smallest value.
StackTopSmallest(st) ==
  CHOOSE i \in DOMAIN st :
    /\ \A j \in DOMAIN st : st[j] >= st[i]
    /\ \A j \in DOMAIN st : st[j] = st[i] => i <= j

\* Line 1264, stack.max(1)[1]: the first slot holding the largest value.
StackTop(st) == ArgMaxFirst(st, DOMAIN st)

\* The mask without the test part_sol != init_sol: of the nodes taken only
\* the last one is masked.
GetMaskLastOnly(ps, is, st, lifo) ==
  LET base == {v \in Nodes : ps[v] = 0}
      wait_to_pick == {k + half_size : k \in {j \in DOMAIN st : st[j] < 0}}
      top == StackTop(st)
      stack_top == IF top # 0 THEN top + half_size ELSE 0
  IN IF ~lifo
       THEN base \cup wait_to_pick
       ELSE ((base \cup (half_size + 1 .. 2 * half_size))
               \ (IF stack_top # 0 THEN {stack_top} ELSE {}))

\* _get_mask, lines 1248-1269: the set of masked nodes.
GetMask(ps, is, st, lifo) ==
  LET base == {v \in Nodes : ps[v] = 0 \/ ps[v] # is[v]}
      wait_to_pick == {k + half_size : k \in {j \in DOMAIN st : st[j] < 0}}
      top == StackTop(st)
      stack_top == IF top # 0 THEN top + half_size ELSE 0
  IN IF ~lifo
       THEN base \cup wait_to_pick
       ELSE ((base \cup (half_size + 1 .. 2 * half_size))
               \ (IF stack_top # 0 THEN {stack_top} ELSE {}))

\* Lines 1216-1217: uc with the masked entries at -1e20.
MaskedUc(k, mask) ==
  [v \in Nodes |-> IF v \in mask THEN MaskedLogit ELSE Uc(k, v)]

\* Lines 1222-1232: the nodes next_node can come out as.
NextNodes(sel, fixed, k, mask) ==
  IF IsSome(fixed) THEN {Get(fixed)[k + 1]}
  ELSE IF sel = "greedy"
    THEN LET prob == Softmax(MaskedUc(k, mask))
         IN {ArgMaxFirst([v \in Nodes |-> prob[v][1]], Nodes)}
  ELSE Multinomial(Softmax(MaskedUc(k, mask)))

\* Lines 1239-1244: the stack after next_node is taken at step k.
StackAfter(st, next_node, k) ==
  LET index_in == next_node <= half_size /\ next_node > 0
      index_out == next_node > half_size /\ next_node > 0
  IN IF index_in THEN [st EXCEPT ![next_node] = Hundredths(k + 1)]
     ELSE IF index_out
       THEN [st EXCEPT ![next_node - half_size] = Hundredths(-1)]
     ELSE st

\* ConstructDecoder.forward, lines 1192-1246, called with step = 0, 1, ...
\* on the buffers the step before left.
ConstructStep ==
  /\ cons_pc = "stepping"
  /\ step < 2 * half_size
  /\ LET zeros == {v \in Nodes : part_sol[v] = 0}
         last_step == CHOOSE v \in zeros : TRUE
         mask == GetMask(part_sol, init_sol, stack, stack_is_lifo)
     IN IF \/ Cardinality(zeros) # 1
           \/ direct_fixed_sol = None
              /\ type_select \notin {"greedy", "sample"}
          THEN /\ cons_pc' = "failed"
               /\ UNCHANGED << part_sol, stack, step, sel_log_p, tour,
                               took_masked >>
          ELSE \E next_node \in NextNodes(type_select, direct_fixed_sol,
                                          step, mask) :
                 /\ part_sol' = [[part_sol EXCEPT ![last_step] = next_node]
                                   EXCEPT ![next_node] = 0]
                 /\ sel_log_p' =
                      Some(LogSoftmax(MaskedUc(step, mask))[next_node])
                 /\ stack' = StackAfter(stack, next_node, step)
                 /\ step' = step + 1
                 /\ tour' = Append(tour, next_node)
                 /\ took_masked' =
                      (took_masked \/ (next_node \in mask /\ mask # Nodes))
                 /\ UNCHANGED cons_pc
  /\ UNCHANGED << stack_is_lifo, type_select, init_sol, direct_fixed_sol,
                  stepvars, posvars, encvars >>

\* The caller takes part_sol as the tour after 2n steps.
ConstructDone ==
  /\ cons_pc = "stepping"
  /\ step = 2 * half_size
  /\ cons_pc' = "done"
  /\ UNCHANGED << stack_is_lifo, type_select, init_sol, part_sol, stack,
                  step, direct_fixed_sol, sel_log_p, tour, took_masked,
                  stepvars, posvars, encvars >>

ConsNext ==
  \/ ConstructStep
  \/ ConstructDone

ConsSpec == ConsInit /\ [][ConsNext]_vars

\* ================================================================ claims

Supported == {"NNS", "random", "greedy"}
\* Whether a log-probability is the number 0.
IsLogZero(a) == a[1] = a[2]
Returned == pc = "Applied"
Sampled == fixed_action = None
Act(b) == Get(action)[b]
Mask(b) == Get(mask_table)[b]
CellOf(row) == << row[2], row[3] >>
\* The masked flat table and the distribution of instance b in this state.
TableNow(b) ==
  ReinsertionTable(TYPE_REMOVAL, TYPE_REINSERTION, data, b,
                   Get(action_removal)[b], Mask(b))
ProbsNow(b) == Softmax(TableNow(b))
\* The learned logit of cell c of instance b before masking.
RawLogit(b, c) ==
  ReinsertionLogit(data, b, Get(action_removal)[b], c[1], c[2])

\* C1: in every step where a previous action exists, the pair the step
\* removes differs, for every instance of the batch, from the pair
\* pre_action[:, 0] removed on the preceding step (trained removal policy,
\* action sampled).
C1_NeverReselectsPreviousPair ==
  (Returned /\ Sampled /\ TYPE_REMOVAL = "NNS" /\ IsSome(pre_action))
    => \A b \in Batch : Act(b)[1] # Get(pre_action)[b][1]

\* C2: when the reinsertion choice is sampled from the trained decoder and
\* the mask leaves every instance a feasible cell, every masked cell has
\* probability zero and the returned anchor pair (p, d) is not masked.
C2_SampledCellIsFeasible ==
  (Returned /\ Sampled /\ TYPE_REINSERTION = "NNS"
     /\ \A b \in Batch : Mask(b) # Cells)
    => \A b \in Batch :
         /\ CellOf(Act(b)) \notin Mask(b)
         /\ \A c \in Mask(b) :
              ProbsNow(b)[c[1] * graph_size_plus1 + c[2]][1] = 0

\* A step of the trained policy returned a feasible cell although a masked
\* cell held a larger learned logit, two cells being feasible.
C2_Witness ==
  /\ Returned /\ Sampled
  /\ TYPE_REMOVAL = "NNS" /\ TYPE_REINSERTION = "NNS"
  /\ \A b \in Batch : Mask(b) = Cells \ Probe
  /\ \E b \in Batch :
       /\ CellOf(Act(b)) \in Probe
       /\ \E c \in Mask(b) : RawLogit(b, c) > RawLogit(b, CellOf(Act(b)))

\* C3: if the mask marks every cell infeasible for some instance, the step
\* fails with an error and returns no action.
C3_AllMaskedStepFails ==
  (IsSome(mask_table) /\ \E b \in Batch : Mask(b) = Cells) => ~Returned

\* C4: when the mask leaves exactly one cell feasible for an instance, the
\* trained reinsertion decoder returns that cell, whatever the logits.
C4_SingleFeasibleCellIsSelected ==
  (Returned /\ Sampled /\ TYPE_REINSERTION = "NNS")
    => \A b \in Batch : \A c \in Cells :
         Mask(b) = Cells \ {c} => CellOf(Act(b)) = c

\* The only feasible cell was returned although its learned logit was the
\* smallest possible one, -v_range.
C4_Witness ==
  /\ Returned /\ Sampled
  /\ TYPE_REMOVAL = "NNS" /\ TYPE_REINSERTION = "NNS"
  /\ \E b \in Batch : \E c \in Probe :
       /\ Mask(b) = Cells \ {c}
       /\ CellOf(Act(b)) = c
       /\ RawLogit(b, c) = -VRange

\* C5: with a fixed action the step returns it unchanged, the removal term
\* of the log-likelihood is the removal log-probability at pair index
\* fixed_action[:, 0] and the reinsertion term is the reinsertion
\* log-probability at flat index fixed_action[:, 1] * (2n+1) +
\* fixed_action[:, 2] (each term being 0 where its decoder computes none).
C5_FixedActionIsScoredNotSampled ==
  (Returned /\ IsSome(fixed_action))
    => /\ action = fixed_action
       /\ \A b \in Batch :
            LET row == Get(fixed_action)[b]
                term1 == IF training /\ TYPE_REMOVAL = "NNS"
                           THEN LogSoftmax(RemovalTable(data, b,
                                                        pre_action))[row[1]]
                           ELSE LogOne
                table2 == ReinsertionTable(TYPE_REMOVAL, TYPE_REINSERTION,
                                           data, b, row[1], Mask(b))
                term2 == IF training /\ TYPE_REINSERTION = "NNS"
                           THEN LogSoftmax(table2)[row[2] * graph_size_plus1
                                                   + row[3]]
                           ELSE LogOne
            IN /\ Get(selected_log_ll_action1)[b] = term1
               /\ Get(log_ll)[b] = LogAdd(term1, term2)

\* A training step of the trained policy scored a fixed action both of
\* whose terms are proper log-probabilities (neither 0 nor that of a
\* masked entry).
C5_Witness ==
  /\ Returned /\ IsSome(fixed_action) /\ training
  /\ TYPE_REMOVAL = "NNS" /\ TYPE_REINSERTION = "NNS"
  /\ \A b \in Batch :
       /\ ~IsLogZero(Get(selected_log_ll_action1)[b])
       /\ Get(log_ll)[b][1] > 0
       /\ Get(log_ll)[b] # Get(selected_log_ll_action1)[b]

\* C6: under each of the three selection policies, for the removal and for
\* the reinsertion choice, the step completes and returns an action (a, p,
\* d) with a in [0, n), p and d in [0, 2n], whose cell is not masked (the
\* mask leaving every instance a feasible cell).
C6_EveryPolicyReturnsFeasibleAction ==
  (TYPE_REMOVAL \in Supported /\ TYPE_REINSERTION \in Supported)
    => /\ pc # "Failed"
       /\ (Returned /\ Sampled /\ \A b \in Batch : Mask(b) # Cells)
            => \A b \in Batch :
                 /\ Act(b)[1] \in PairIdx
                 /\ Act(b)[2] \in Nodes /\ Act(b)[3] \in Nodes
                 /\ CellOf(Act(b)) \notin Mask(b)

\* C7, as stated: the log-likelihood is zero whenever either of the two
\* choices was made by a non-trainable policy.
C7_ZeroWhenEitherPolicyUntrained ==
  (Returned /\ (TYPE_REMOVAL # "NNS" \/ TYPE_REINSERTION # "NNS"))
    => \A b \in Batch : IsLogZero(Get(log_ll)[b])

\* C7, amended: the log-likelihood is the sum of a removal term and a
\* reinsertion term of the returned action; a term is the log-probability of
\* its decoder's choice when the module is training and that decoder's
\* policy is the trained one, and 0 otherwise; so the sum is zero when both
\* policies are non-trainable.
C7_SumOfTermsZeroedPerDecoder ==
  Returned
    => \A b \in Batch :
         LET term1 == IF training /\ TYPE_REMOVAL = "NNS"
                        THEN LogSoftmax(RemovalTable(data, b,
                                                     pre_action))[Act(b)[1]]
                        ELSE LogOne
             term2 == IF training /\ TYPE_REINSERTION = "NNS"
                        THEN LogSoftmax(TableNow(b))[Act(b)[2]
                                                     * graph_size_plus1
                                                     + Act(b)[3]]
                        ELSE LogOne
         IN /\ Get(log_ll)[b] = LogAdd(term1, term2)
            /\ (TYPE_REMOVAL # "NNS" /\ TYPE_REINSERTION # "NNS")
                 => Get(log_ll)[b] = LogOne

\* A training step with the trained removal policy and the random
\* reinsertion policy returned a log-likelihood that is not zero.
C7_Witness ==
  /\ Returned /\ training
  /\ TYPE_REMOVAL = "NNS" /\ TYPE_REINSERTION = "random"
  /\ \E b \in Batch : ~IsLogZero(Get(log_ll)[b])

\* C8: the step returns an entropy if and only if the module is training
\* and entropy was requested, and then it is the entropy of the reinsertion
\* distribution of each instance.
C8_EntropyOnlyWhenTrainingAndAsked ==
  Returned
    => /\ IsSome(entropy) <=> (training /\ require_entropy)
       /\ IsSome(entropy)
            => \A b \in Batch : Get(entropy)[b] = EntropyOf(ProbsNow(b))

\* A training step of the trained policy returned the entropy of a
\* reinsertion distribution over two feasible cells.
C8_Witness ==
  /\ Returned /\ training /\ require_entropy /\ IsSome(entropy)
  /\ TYPE_REMOVAL = "NNS" /\ TYPE_REINSERTION = "NNS"
  /\ \E b \in Batch : Mask(b) = Cells \ Probe

\* C9: outside training the step, under every policy and with or without a
\* fixed action, returns an action and the log-likelihood 0.
C9_EvalStepReturnsActionAndZero ==
  (~training /\ pc \in {"Applied", "Failed"}
     /\ TYPE_REMOVAL \in Supported /\ TYPE_REINSERTION \in Supported)
    => /\ Returned
       /\ IsSome(action)
       /\ \A b \in Batch : Get(log_ll)[b] = LogOne

\* C10: an unsupported selection-policy name is rejected when the decoder
\* is constructed, so that no forward step is entered with one.
C10_UnsupportedNamesRejectedAtConstruction ==
  (pc \notin {"New", "ConstructFailed"})
    => (TYPE_REMOVAL \in Supported /\ TYPE_REINSERTION \in Supported)

\* ------------------------------------------ claims on the position encoder

\* The node reached from v by k steps along the successor array.
RECURSIVE Iter(_, _, _)
Iter(sol, v, k) == IF k = 0 THEN v ELSE sol[Iter(sol, v, k - 1)]

\* The nodes the walk of seq_length steps from the depot visits.
Reached(sol) == {Iter(sol, 0, k) : k \in 1 .. seq_length}
\* sol is one cycle over all the nodes.
SingleCycle(sol) == Reached(sol) = Nodes
\* The 1-based rank of v in tour order, counted from the depot's successor.
Rank(sol, v) == CHOOSE k \in 1 .. seq_length : Iter(sol, 0, k) = v
\* Every pickup is visited before its delivery.
PrecedenceValid(sol) ==
  /\ SingleCycle(sol)
  /\ \A k \in 1 .. half_size : Rank(sol, k) < Rank(sol, k + half_size)
\* The pickups open right after the node of rank r is visited.
OpenAt(sol, r) ==
  {k \in 1 .. half_size :
     Rank(sol, k) <= r /\ r < Rank(sol, k + half_size)}
\* The pickup of S visited last.
MostRecent(sol, S) ==
  CHOOSE k \in S : \A j \in S : Rank(sol, j) <= Rank(sol, k)
PosReturned == pos_pc \in {"returned", "decoded"}
InLoop == pos_pc = "loop" /\ calc_stacks /\ step_i >= 1

\* C11: given a solution that is not a single cycle over all 2n+1 nodes, the
\* encoder fails and returns no visit-index and no top2 result.
C11_InvalidTourIsRejected ==
  (pos_pc # "off" /\ ~SingleCycle(solution)) => ~PosReturned

\* C12: for every permutation of 0..2n, pre = argsort(solution) is the
\* inverse of solution: solution[pre[i]] = i and pre[solution[i]] = i.
C12_ArgsortIsInverse ==
  (pos_pc = "decoded" /\ solution \in TourPermutations)
    => \A v \in Nodes :
         /\ solution[Get(argsort_pre)[v]] = v
         /\ Get(argsort_pre)[solution[v]] = v

\* The predecessor view was taken of a single-cycle tour, which is not its
\* own inverse.
C12_Witness ==
  /\ pos_pc = "decoded"
  /\ SingleCycle(solution)
  /\ Get(argsort_pre) # solution

\* C13: for every single-cycle tour the visit-index returned gives each
\* node its 1-based rank in tour order counted from the depot's successor,
\* a value in 1..2n+1, the depot (visited last) included.
C13_VisitIndexIsRankFromOne ==
  (pos_pc = "returned" /\ SingleCycle(solution))
    => \A v \in Nodes :
         /\ Get(visit_index_out)[v] = Rank(solution, v)
         /\ Get(visit_index_out)[v] \in 1 .. seq_length

\* The stack after k iterations when every opened-at value is c larger.
RECURSIVE ShiftedStacks(_, _, _)
ShiftedStacks(sol, c, k) ==
  IF k = 0
    THEN [[j \in 0 .. half_size |-> Sentinel] EXCEPT ![0] = 0]
    ELSE LET cur == Iter(sol, 0, k)
             st == StackStep(ShiftedStacks(sol, c, k - 1), cur, k - 1)
         IN IF cur \in 1 .. half_size
              THEN [st EXCEPT ![cur] = @ + Hundredths(c)]
              ELSE st

C18_Top2AreTheOpenPickups ==
  (pos_pc = "returned" /\ calc_stacks /\ PrecedenceValid(solution))
    => \A v \in Nodes :
         LET open == OpenAt(solution, Rank(solution, v))
             t == Get(top2_out)[v]
         IN /\ (v \in 1 .. half_size) => t[1] = v
            /\ (open = {}) => t[1] = 0
            /\ (Cardinality(open) = 1) => (t[1] \in open /\ t[2] = 0)
            /\ (Cardinality(open) >= 2)
                 => /\ t[1] = MostRecent(solution, open)
                    /\ t[2] = MostRecent(solution, open \ {t[1]})

\* A tour that breaks the LIFO order was encoded: at the delivery of the
\* pickup opened first, the pickup opened second is the only one open.
C18_Witness ==
  /\ pos_pc = "returned" /\ calc_stacks /\ PrecedenceValid(solution)
  /\ \E d \in half_size + 1 .. 2 * half_size : \E k \in 1 .. half_size :
       /\ Rank(solution, d - half_size) < Rank(solution, k)
       /\ Rank(solution, k) < Rank(solution, d)
       /\ Get(top2_out)[d] = << k, 0 >>
  /\ \E v \in Nodes : Cardinality(OpenAt(solution, Rank(solution, v))) >= 2

\* C19: at every step of the simulation the two largest stack values are
\* distinct and strictly larger than all the others, so that topk can give
\* one result only.
C19_Top2IsUniquelyDetermined ==
  (InLoop /\ PrecedenceValid(solution))
    => /\ Cardinality(TopK2(stacks)) = 1
       /\ \A t \in TopK2(stacks) :
            /\ stacks[t[1]] > stacks[t[2]]
            /\ \A j \in DOMAIN stacks \ {t[1], t[2]} : stacks[j] < stacks[t[2]]

\* C20: at every step over a tour satisfying precedence the stack has n+1
\* slots, the depot slot holds 0, the slot of a pickup visited whose
\* delivery is not holds the pickup's visit rank, every other pickup slot
\* holds the sentinel; after the last step every pickup slot holds it.
C20_StackHoldsRanksOfOpenPickups ==
  (pos_pc \in {"loop", "returned"} /\ calc_stacks
     /\ PrecedenceValid(solution))
    => /\ Cardinality(DOMAIN stacks) = NumPairs + 1
       /\ stacks[0] = 0
       /\ \A k \in 1 .. half_size :
            stacks[k] =
              IF Rank(solution, k) <= step_i
                   /\ step_i < Rank(solution, k + half_size)
                THEN Hundredths(Rank(solution, k))
                ELSE Sentinel
       /\ (step_i = seq_length)
            => \A k \in 1 .. half_size : stacks[k] = Sentinel

\* In the middle of a tour one pickup is open, one is closed again.
C20_Witness ==
  /\ pos_pc = "loop" /\ calc_stacks /\ PrecedenceValid(solution)
  /\ step_i < seq_length
  /\ \E k \in 1 .. half_size : stacks[k] >= Hundredths(1)
  /\ \E k \in 1 .. half_size :
       Rank(solution, k + half_size) <= step_i /\ stacks[k] = Sentinel

\* ------------------------------------------------- further claims on a step

\* The indices holding the largest value.
Ties(val, S) == {i \in S : \A j \in S : val[j] <= val[i]}

C16_EntropyZeroIffSingleCell ==
  (Returned /\ IsSome(entropy))
    => \A b \in Batch :
         /\ Cardinality(Cells \ Mask(b)) = 1 => EntropyIsZero(Get(entropy)[b])
         /\ Cardinality(Cells \ Mask(b)) >= 2
              => ~EntropyIsZero(Get(entropy)[b])

\* C17: a step leaves the state of the modules unchanged: no attribute is
\* stored by the step, whatever the variant of the removal decoder.
C17_StepStoresNothing ==
  [][(pc \in {"Removing", "Masking", "Reinserting", "Applied"})
       => pair_with' = pair_with]_vars

\* ------------------------------------------------ the order within a step

\* C21: within one step the pair to remove is selected first; then the
\* mask is requested from the environment, exactly once and for that pair
\* (freed pickup id a+1, freed delivery id a+1+n); then the mask is applied
\* to the reinsertion table, the anchor pair selected and the action
\* (a, p, d) assembled; no reinsertion choice is made before the mask of
\* the current a is applied.
C21_StepEventsInOrder ==
  [][ /\ (action_removal = None /\ IsSome(action_removal'))
          => /\ swap_mask_calls' = << >>
             /\ mask_table' = None
             /\ action' = None
      /\ (swap_mask_calls' # swap_mask_calls /\ swap_mask_calls' # << >>)
          => /\ IsSome(action_removal)
             /\ action_removal' = action_removal
             /\ swap_mask_calls = << >>
             /\ swap_mask_calls' =
                  << [b \in Batch |-> Get(action_removal)[b] + 1] >>
             /\ pos_pickup' =
                  Some([b \in Batch |-> Get(action_removal)[b] + 1])
             /\ pos_delivery' =
                  Some([b \in Batch |-> Get(action_removal)[b] + 1 + NumPairs])
             /\ IsSome(mask_table')
             /\ action' = None
      /\ (action = None /\ IsSome(action'))
          => /\ Len(swap_mask_calls) = 1
             /\ swap_mask_calls' = swap_mask_calls
             /\ IsSome(mask_table)
             /\ mask_table' = mask_table
             /\ action_removal' = action_removal
             /\ \A b \in Batch :
                  /\ Get(action')[b][1] = Get(action_removal)[b]
                  /\ (Sampled /\ Mask(b) # Cells)
                       => CellOf(Get(action')[b]) \notin Mask(b)
    ]_vars

\* A sampled step returned: the last pair was removed in some instance, the
\* one request for the mask named the pickups of the pairs removed, and
\* every instance came out with one of its two feasible cells.
C21_Witness ==
  /\ Returned /\ Sampled
  /\ swap_mask_calls = << [b \in Batch |-> Act(b)[1] + 1] >>
  /\ \E b \in Batch : Act(b)[1] = NumPairs - 1
  /\ \A b \in Batch : Mask(b) = Cells \ Probe /\ CellOf(Act(b)) \in Probe

C23_FlatIndexAndAnchorsAreInverse ==
  Returned
    => \A b \in Batch :
         LET idx == Get(pair_index)[b]
             p == Act(b)[2]
             d == Act(b)[3]
         IN /\ idx \in FlatIdx /\ p \in Nodes /\ d \in Nodes
            /\ idx = p * (2 * NumPairs + 1) + d
            /\ p = idx \div (2 * NumPairs + 1)
            /\ d = idx % (2 * NumPairs + 1)
            /\ (Sampled /\ Mask(b) # Cells) => << p, d >> \notin Mask(b)
            /\ (IsSome(fixed_action) /\ training /\ TYPE_REINSERTION = "NNS"
                  /\ Mask(b) # Cells
                  /\ Get(selected_log_ll_action1)[b][1] > 0)
                 => (<< p, d >> \in Mask(b) <=> Get(log_ll)[b][1] = 0)

\* A sampled step came out with the only feasible cell, row 2n and column
\* 1, and a step scored a fixed action whose cell (1, 2) was feasible.
C23_Witness ==
  /\ Returned
  /\ \/ /\ Sampled
        /\ \E b \in Batch :
             /\ Mask(b) = Cells \ {<< 2 * NumPairs, 1 >>}
             /\ Get(pair_index)[b] = 2 * NumPairs * (2 * NumPairs + 1) + 1
             /\ Act(b)[2] = 2 * NumPairs /\ Act(b)[3] = 1
     \/ /\ IsSome(fixed_action) /\ training /\ TYPE_REINSERTION = "NNS"
        /\ \E b \in Batch :
             /\ CellOf(Act(b)) = << 1, 2 >>
             /\ << 1, 2 >> \notin Mask(b)
             /\ Get(log_ll)[b][1] > 0

\* C24: when no previous action exists no removal mask is applied: every
\* one of the n pair indices remains selectable in that step.
C24_NoTabuWithoutPreviousAction ==
  (IsSome(action_removal_table) /\ pre_action = None)
    => \A b \in Batch : \A k \in PairIdx :
         /\ Get(action_removal_table)[b][k] # MaskedLogit
         /\ k \in Multinomial(Softmax(Get(action_removal_table)[b]))

\* Without a previous action the trained removal policy selected the first
\* pair in one instance and the last pair in another.
C24_Witness ==
  /\ Returned /\ Sampled /\ TYPE_REMOVAL = "NNS" /\ pre_action = None
  /\ \E b \in Batch : Get(action_removal)[b] = 0
  /\ \E b \in Batch : Get(action_removal)[b] = NumPairs - 1

\* C27: when the reinsertion policy is greedy the step builds the greedy
\* reinsertion table and returns an action under every removal policy
\* (trained, random or greedy): the branch taken depends on the
\* reinsertion policy alone.
C27_GreedyReinsertionUnderEveryRemoval ==
  (TYPE_REINSERTION = "greedy" /\ TYPE_REMOVAL \in Supported
     /\ pc \in {"Applied", "Failed"})
    => (Returned /\ IsSome(action) /\ error = "")

\* ------------------------------------- further claims on the tour's views

\* The nodes with a rank assigned (visit_index is 0 until a node is visited).
Visited == {v \in Nodes : visit_index[v] # 0}

\* C26: for every single-cycle tour of 2n+1 nodes the walk runs exactly
\* 2n+1 iterations, visits every node exactly once and the depot last, so
\* the ranks assigned before the final modulo are a bijection onto
\* 1..2n+1; for any input array the walk ends after 2n+1 iterations.
C26_WalkVisitsEachNodeOnce ==
  /\ (pos_pc \notin {"off", "called"})
       => /\ step_i \in 0 .. 2 * NumPairs + 1
          /\ (pos_pc # "loop") => step_i = 2 * NumPairs + 1
  /\ (pos_pc \notin {"off", "called"} /\ SingleCycle(solution))
       => /\ Cardinality(Visited) = step_i
          /\ {visit_index[v] : v \in Visited} = 1 .. step_i
          /\ (0 \in Visited) <=> (step_i = 2 * NumPairs + 1)
          /\ (step_i = 2 * NumPairs + 1)
               => /\ visit_index[0] = 2 * NumPairs + 1
                  /\ \A r \in 1 .. 2 * NumPairs + 1 :
                       Cardinality({v \in Nodes : visit_index[v] = r}) = 1

\* The walk over a single-cycle tour that is not the identity order is in
\* its last iteration but one: all nodes but the depot are ranked.
C26_Witness ==
  /\ pos_pc = "loop" /\ SingleCycle(solution)
  /\ solution[0] # 1
  /\ step_i = 2 * NumPairs
  /\ Visited = Nodes \ {0}

\* The cycle rec walks from the depot in k steps.
WalkFromDepot(rec, k) == {Iter(rec, 0, j) : j \in 1 .. k}

\* C28: in the greedy reinsertion path, cutting the selected pair out of a
\* valid tour gives a successor array in which the remaining 2n-1 nodes
\* form one cycle through the depot that holds neither freed node, for
\* every tour and every pair (the pickup followed at once by its delivery,
\* a freed node next to the depot); the tour array itself is not modified.
C28_ExcisionLeavesOneCycle ==
  [][(pos_pc = "decoded" /\ pos_pc' = "excised" /\ SingleCycle(solution))
       => LET rec == Get(rec_new')
              pick == Get(excised_pair') + 1
              deli == Get(excised_pair') + 1 + NumPairs
          IN /\ solution' = solution
             /\ WalkFromDepot(rec, 2 * NumPairs - 1) = Nodes \ {pick, deli}
             /\ Iter(rec, 0, 2 * NumPairs - 1) = 0
             /\ \A k \in 1 .. 2 * NumPairs - 2 : Iter(rec, 0, k) # 0
             /\ \A v \in Nodes \ {pick, deli} :
                  rec[v] = IF solution[v] \notin {pick, deli}
                             THEN solution[v]
                           ELSE IF solution[solution[v]] \notin {pick, deli}
                             THEN solution[solution[v]]
                           ELSE solution[solution[solution[v]]]
    ]_vars

\* A pair was cut out of a tour that visits its pickup first, right after
\* the depot, and its delivery at once after the pickup.
C28_Witness ==
  /\ pos_pc = "excised" /\ SingleCycle(solution)
  /\ solution[0] = Get(excised_pair) + 1
  /\ solution[Get(excised_pair) + 1] = Get(excised_pair) + 1 + NumPairs
  /\ Get(rec_new)[0] = solution[Get(excised_pair) + 1 + NumPairs]

\* -------------------------------------------------- claims on the encoder

\* C25: every encoder layer returns the auxiliary attention score it was
\* given, unchanged: after any number of stacked layers the auxiliary score
\* handed to the next layer is the one supplied to the first layer.
C25_AuxiliaryScoreIsPassedOn ==
  (enc_pc # "off") => aux_att_score = aux_first

\* The full stack has run on features it changed and on an auxiliary score
\* that differs from cell to cell and from the fused score of the layer.
C25_Witness ==
  /\ enc_pc = "done" /\ layer = NumLayers
  /\ \E c \in Query \X Query : \E e \in Query \X Query :
       aux_att_score[c] # aux_att_score[e]
  /\ FusedScore(h_fea, aux_att_score) # aux_att_score
  /\ NNSEncoderForward(h_fea, aux_att_score)[1] # h_fea

\* ------------------------------------ claims on the constructive decoder

\* The nodes taken so far.
Taken == {tour[i] : i \in 1 .. Len(tour)}
\* The position of v in the order of taking.
TakenAt(v) == CHOOSE i \in 1 .. Len(tour) : tour[i] = v
\* The pickups taken whose delivery is not.
OpenPickups == {k \in 1 .. NumPairs : k \in Taken /\ k + NumPairs \notin Taken}
\* The pickups open right before the i-th node was taken.
OpenBefore(i) ==
  {k \in 1 .. NumPairs :
     /\ \E j \in 1 .. i - 1 : tour[j] = k
     /\ ~\E j \in 1 .. i - 1 : tour[j] = k + NumPairs}
\* The pickup of S taken last.
LastTaken(S) == CHOOSE k \in S : \A j \in S : TakenAt(j) <= TakenAt(k)
\* The deliveries the mask of the next step leaves selectable.
SelectableDeliveries ==
  (NumPairs + 1 .. 2 * NumPairs)
    \ GetMask(part_sol, init_sol, stack, stack_is_lifo)
ConsRunning == cons_pc \in {"stepping", "done"}

\* C29: the depot slot of the stack staying above every closed or unopened
\* slot and below every open one, the mask under LIFO loading leaves at
\* most one delivery selectable, the partner of the open pickup taken
\* last, and none when no pickup is open; without LIFO a delivery is
\* selectable only if its pickup is open.  So a tour built by repeated
\* steps satisfies precedence, and the LIFO order under LIFO loading.
C29_MaskKeepsPrecedenceAndLifo ==
  (ConsRunning /\ ~took_masked)
    => /\ \A k \in 1 .. NumPairs :
            IF k \in OpenPickups THEN stack[k] > stack[0]
                                 ELSE stack[k] < stack[0]
       /\ stack_is_lifo
            => SelectableDeliveries =
                 IF OpenPickups = {} THEN {}
                 ELSE {LastTaken(OpenPickups) + NumPairs}
       /\ ~stack_is_lifo
            => SelectableDeliveries = {k + NumPairs : k \in OpenPickups}
       /\ \A i \in 1 .. Len(tour) :
            (tour[i] > NumPairs)
              => /\ tour[i] - NumPairs \in OpenBefore(i)
                 /\ stack_is_lifo
                      => \A k \in OpenBefore(i) :
                           \A j \in 1 .. i - 1 :
                             (tour[j] = k)
                               => \E m \in j .. i - 1 :
                                    tour[m] = tour[i] - NumPairs
       /\ (cons_pc = "done")
            => /\ PrecedenceValid(part_sol)
               /\ OpenPickups = {}

\* Under LIFO loading, sampling, two pickups are open and the one taken
\* last is not the one with the larger id: its delivery alone can be taken.
C29_Witness ==
  /\ cons_pc = "stepping" /\ stack_is_lifo /\ direct_fixed_sol = None
  /\ type_select = "sample"
  /\ Cardinality(OpenPickups) >= 2
  /\ \E k \in OpenPickups : k > LastTaken(OpenPickups)
  /\ SelectableDeliveries = {LastTaken(OpenPickups) + NumPairs}

\* C30: starting from part_sol equal to init_sol but for the depot entry 0,
\* init_sol[j] being neither 0 nor a possible successor of j, every step
\* that has an unmasked node takes a node not taken before and not the
\* depot; after each step part_sol is, on the depot and the nodes taken,
\* one cycle ending back at the depot, with exactly one entry equal to 0,
\* and every node not taken keeps its init_sol entry; after 2n steps
\* part_sol is a complete tour.
C30_PartSolGrowsIntoATour ==
  (ConsRunning /\ direct_fixed_sol = None)
    => /\ ~took_masked
       /\ Len(tour) = step
       /\ 0 \notin Taken
       /\ Cardinality(Taken) = step
       /\ \A k \in 1 .. step : Iter(part_sol, 0, k) = tour[k]
       /\ Iter(part_sol, 0, step + 1) = 0
       /\ Cardinality({v \in Nodes : part_sol[v] = 0}) = 1
       /\ \A v \in Nodes \ (Taken \cup {0}) : part_sol[v] = init_sol[v]
       /\ (step = 2 * NumPairs)
            => /\ SingleCycle(part_sol)
               /\ Taken = Nodes \ {0}

\* The decoder, choosing by itself from a self-pointing init_sol, has
\* taken more than one node and not yet all: the last one points at the
\* depot, a node not taken at itself.
C30_Witness ==
  /\ cons_pc = "stepping" /\ direct_fixed_sol = None
  /\ step >= 2 /\ step < 2 * NumPairs
  /\ part_sol[tour[step]] = 0
  /\ \E v \in Nodes \ (Taken \cup {0}) : part_sol[v] = v

====
